---- MODULE Spec2Model ----
(***************************************************************************)
(* Model of the synthetic student-attempt generator                        *)
(* (generate_student_attempts.py) and of the lecture extraction script     *)
(* (extract_question_bank.py).                                             *)
(*                                                                         *)
(* JSON objects are records (a missing key is a missing field), JSON       *)
(* arrays are sequences, a dict whose key order matters is a sequence of   *)
(* (key, value) entries.  random.Random is a counter-based generator: its  *)
(* state is the seed and the number of primitive draws made so far, and    *)
(* the value of a draw is a fixed function of both.                        *)
(***************************************************************************)
EXTENDS Integers, Sequences, FiniteSets

VARIABLES
    qb,                 \* the question bank document on disk (input)
    args,               \* the parameters of generate_attempts
    pc,                 \* position in the running script
    run,                \* how many times the script has been started
    prev,               \* outcome of the previous run with the same inputs
    rng,                \* random.Random instance
    questions,          \* flattened question list
    all_tags,           \* sorted tag universe
    s,                  \* student loop index
    weak_tags,          \* weak tags of the current student
    qi,                 \* position of the inner loop in questions (1-based)
    f_out,              \* contents of the output attempts file
    error,              \* exception that ended the run, if any
    rngLog,             \* history of the uses of rng in this run
    keep_lectures,      \* extraction: lectures matching the target
    used_tags,          \* extraction: tags of the kept lectures
    filtered_ontology,  \* extraction: ontology restricted to used_tags
    out_file,           \* extraction: the written bank, or NoFile
    unit                \* a single call of a helper function and its result

genVars == <<args, run, prev, rng, questions, all_tags, s, weak_tags, qi,
             f_out, rngLog>>
extVars == <<keep_lectures, used_tags, filtered_ontology, out_file>>
vars == <<qb, args, pc, run, prev, rng, questions, all_tags, s, weak_tags,
          qi, f_out, error, rngLog, keep_lectures, used_tags,
          filtered_ontology, out_file, unit>>

----------------------------------------------------------------------------
(* Bounds *)

MaxStudents == 2
MaxLectures == 2
MaxAssignments == 1
MaxSeed == 1
MaxRuns == 2
RngRes == 4

----------------------------------------------------------------------------
(* Generic helpers *)

Range(seq) == {seq[i] : i \in DOMAIN seq}

Max(a, b) == IF a >= b THEN a ELSE b

Min(a, b) == IF a <= b THEN a ELSE b

\* dict.get(key, default)
Get(d, key, default) == IF key \in DOMAIN d THEN d[key] ELSE default

\* all tags, in the order of Python's string comparison
TagOrder == <<"T1", "T2", "T3">>

\* sorted(set_of_tags)
sorted(S) == SelectSeq(TagOrder, LAMBDA t : t \in S)

NoError == [type |-> "None"]

----------------------------------------------------------------------------
(* random.Random *)

Seeds == 0..MaxSeed

\* random.Random(seed)
Random(seed) == [seed |-> seed, pos |-> 0]

\* the primitive draw at the generator's current position, in 0..RngRes-1
Raw(g) == (g.seed * (g.pos + 1) + (g.pos * (g.pos + 1)) \div 2 + g.pos \div 3) % RngRes

Advance(g) == [g EXCEPT !.pos = g.pos + 1]

\* rng.random(): a value v standing for v / RngRes in [0, 1)
random(g) == [value |-> Raw(g), rng |-> Advance(g)]

\* rng._randbelow(n), n > 0
randbelow(g, n) == [value |-> Raw(g) % n, rng |-> Advance(g)]

\* rng.randint(a, b), a <= b
randint(g, a, b) ==
    LET r == randbelow(g, b - a + 1)
    IN  [value |-> a + r.value, rng |-> r.rng]

RECURSIVE samplePool(_, _, _, _)
\* the selection loop of rng.sample: k draws from a shrinking pool
samplePool(g, pool, n, k) ==
    IF k = 0 THEN [value |-> <<>>, rng |-> g]
    ELSE LET r    == randbelow(g, n)
             j    == r.value + 1
             pl   == [pool EXCEPT ![j] = pool[n]]
             rest == samplePool(r.rng, pl, n - 1, k - 1)
         IN  [value |-> <<pool[j]>> \o rest.value, rng |-> rest.rng]

\* rng.sample(population, k), 0 <= k <= len(population)
sample(g, population, k) == samplePool(g, population, Len(population), k)

\* rng.choice(seq): IndexError on an empty sequence
choice(g, seq) ==
    IF seq = <<>>
    THEN [raised |-> TRUE, rng |-> g,
          exc |-> [type |-> "IndexError",
                   msg |-> "Cannot choose from an empty sequence"]]
    ELSE LET r == randbelow(g, Len(seq))
         IN  [raised |-> FALSE, value |-> seq[r.value + 1], rng |-> r.rng]

----------------------------------------------------------------------------
(* Helper functions of generate_student_attempts.py *)

RECURSIVE LectureQuestions(_)
LectureQuestions(lecs) ==
    IF lecs = <<>> THEN <<>>
    ELSE Get(Head(lecs), "questions", <<>>) \o LectureQuestions(Tail(lecs))

RECURSIVE PartQuestions(_)
PartQuestions(parts) ==
    IF parts = <<>> THEN <<>>
    ELSE Get(Head(parts), "questions", <<>>) \o PartQuestions(Tail(parts))

RECURSIVE AssignmentQuestions(_)
AssignmentQuestions(asgs) ==
    IF asgs = <<>> THEN <<>>
    ELSE PartQuestions(Get(Head(asgs), "parts", <<>>))
             \o AssignmentQuestions(Tail(asgs))

\* variant: the assignments are walked before the lectures
iter_all_questions_asg_first(question_bank) ==
    AssignmentQuestions(Get(question_bank, "assignments", <<>>))
        \o LectureQuestions(Get(question_bank, "lectures", <<>>))

iter_all_questions(question_bank) ==
    LectureQuestions(Get(question_bank, "lectures", <<>>))
        \o AssignmentQuestions(Get(question_bank, "assignments", <<>>))

\* sorted({tag for q in questions for tag in q.get("concept_tags", [])})
TagUniverse(qs) ==
    sorted(UNION {Range(Get(qs[i], "concept_tags", <<>>)) : i \in DOMAIN qs})

\* variant: k_max is raised to k_min when the clamped bounds cross
choose_weak_tags_raise_hi(tags, g, k_min, k_max) ==
    IF tags = <<>> THEN [value |-> <<>>, rng |-> g]
    ELSE LET k_low   == Max(0, Min(k_min, Len(tags)))
             k_high0 == Max(0, Min(k_max, Len(tags)))
             k_high  == IF k_low > k_high0 THEN k_low ELSE k_high0
             k       == randint(g, k_low, k_high)
         IN  sample(k.rng, tags, k.value)

\* variant: no draw for k when the clamped bounds coincide
choose_weak_tags_skip_draw(tags, g, k_min, k_max) ==
    IF tags = <<>> THEN [value |-> <<>>, rng |-> g]
    ELSE LET k_low0 == Max(0, Min(k_min, Len(tags)))
             k_high == Max(0, Min(k_max, Len(tags)))
             k_low  == IF k_low0 > k_high THEN k_high ELSE k_low0
             k      == IF k_low = k_high THEN [value |-> k_low, rng |-> g]
                       ELSE randint(g, k_low, k_high)
         IN  sample(k.rng, tags, k.value)

choose_weak_tags(tags, g, k_min, k_max) ==
    IF tags = <<>> THEN [value |-> <<>>, rng |-> g]
    ELSE LET k_low0 == Max(0, Min(k_min, Len(tags)))
             k_high == Max(0, Min(k_max, Len(tags)))
             k_low  == IF k_low0 > k_high THEN k_high ELSE k_low0
             k      == randint(g, k_low, k_high)
         IN  sample(k.rng, tags, k.value)

any_weak_tag(question_tags, weak_tags_set) ==
    \E i \in DOMAIN question_tags : question_tags[i] \in weak_tags_set

\* list(options.keys())
keys(options) == [i \in DOMAIN options |-> options[i].key]

\* variant: a wrong answer is drawn from all the option keys
pick_answer_any_key(options, correct_options, want_correct, g) ==
    IF Len(correct_options) # 1
    THEN [raised |-> TRUE, rng |-> g,
          exc |-> [type |-> "ValueError",
                   msg |-> "single_select expects exactly 1 correct options, got",
                   got |-> correct_options]]
    ELSE LET c == choice(g, keys(options))
         IN  IF want_correct
             THEN [raised |-> FALSE, value |-> <<correct_options[1]>>, rng |-> g]
             ELSE IF c.raised THEN c
             ELSE [raised |-> FALSE, value |-> <<c.value>>, rng |-> c.rng]

\* variant: with no wrong key to draw, the correct key is answered
pick_answer_always_correct(options, correct_options, want_correct, g) ==
    IF Len(correct_options) # 1
    THEN [raised |-> TRUE, rng |-> g,
          exc |-> [type |-> "ValueError",
                   msg |-> "single_select expects exactly 1 correct options, got",
                   got |-> correct_options]]
    ELSE LET correct_option == correct_options[1]
             wrong_keys     == SelectSeq(keys(options),
                                         LAMBDA k : k # correct_option)
             c              == choice(g, wrong_keys)
         IN  IF want_correct \/ wrong_keys = <<>>
             THEN [raised |-> FALSE, value |-> <<correct_option>>, rng |-> g]
             ELSE [raised |-> FALSE, value |-> <<c.value>>, rng |-> c.rng]

pick_answer_single_select(options, correct_options, want_correct, g) ==
    IF Len(correct_options) # 1
    THEN [raised |-> TRUE, rng |-> g,
          exc |-> [type |-> "ValueError",
                   msg |-> "single_select expects exactly 1 correct options, got",
                   got |-> correct_options]]
    ELSE LET all_keys       == keys(options)
             correct_option == correct_options[1]
             wrong_keys     == SelectSeq(all_keys, LAMBDA k : k # correct_option)
             c              == choice(g, wrong_keys)
         IN  IF want_correct
             THEN [raised |-> FALSE, value |-> <<correct_option>>, rng |-> g]
             ELSE IF c.raised THEN c
             ELSE [raised |-> FALSE, value |-> <<c.value>>, rng |-> c.rng]

\* variant: a draw equal to the wrong-probability counts as correct
decide_correct_ge(has_weak, g, p_wrong_if_weak, p_wrong_if_strong) ==
    LET p_wrong == IF has_weak THEN p_wrong_if_weak ELSE p_wrong_if_strong
        r       == random(g)
    IN  [value |-> r.value >= p_wrong, rng |-> r.rng]

decide_correct(has_weak, g, p_wrong_if_weak, p_wrong_if_strong) ==
    LET p_wrong == IF has_weak THEN p_wrong_if_weak ELSE p_wrong_if_strong
        r       == random(g)
    IN  [value |-> r.value > p_wrong, rng |-> r.rng]

DigitChar == <<"0", "1", "2", "3", "4", "5", "6", "7", "8", "9">>

RECURSIVE Digits(_)
\* decimal digits of a natural number
Digits(n) ==
    IF n < 10 THEN <<DigitChar[n + 1]>>
    ELSE Digits(n \div 10) \o <<DigitChar[(n % 10) + 1]>>

RECURSIVE ZeroPad(_, _)
ZeroPad(ds, width) ==
    IF Len(ds) >= width THEN ds ELSE ZeroPad(<<"0">> \o ds, width)

\* f"S{s:06d}"
StudentId(n) == <<"S">> \o ZeroPad(Digits(n), 6)

----------------------------------------------------------------------------
(* Question banks the scripts are run on *)

Opt(k) == [key |-> k, text |-> k]

Q_plain ==
    [question_id |-> "L1_1_Q1", question_type |-> "single_select",
     options |-> <<Opt("A"), Opt("B")>>, correct_options |-> <<"A">>,
     concept_tags |-> <<"T1">>]

\* no question_type key
Q_notype ==
    [question_id |-> "L1_1_Q2",
     options |-> <<Opt("A"), Opt("B"), Opt("C")>>, correct_options |-> <<"B">>,
     concept_tags |-> <<"T2", "T1">>]

\* empty concept_tags list
Q_untagged ==
    [question_id |-> "L1_1_Q3", question_type |-> "single_select",
     options |-> <<Opt("A"), Opt("B")>>, correct_options |-> <<"B">>,
     concept_tags |-> <<>>]

\* the only option is the correct one
Q_single ==
    [question_id |-> "L1_2_Q1", question_type |-> "single_select",
     options |-> <<Opt("A")>>, correct_options |-> <<"A">>,
     concept_tags |-> <<"T2">>]

\* the correct key is not an option key; no concept_tags key
Q_foreign ==
    [question_id |-> "L1_2_Q2", question_type |-> "single_select",
     options |-> <<Opt("A"), Opt("B")>>, correct_options |-> <<"D">>]

\* two correct options
Q_two ==
    [question_id |-> "A1_P1_Q1", question_type |-> "single_select",
     options |-> <<Opt("A"), Opt("B")>>, correct_options |-> <<"A", "B">>,
     concept_tags |-> <<"T3">>]

\* unsupported question type
Q_multi ==
    [question_id |-> "A2_P2_Q1", question_type |-> "multi_select",
     options |-> <<Opt("A"), Opt("B"), Opt("C")>>,
     correct_options |-> <<"A", "C">>, concept_tags |-> <<"T1">>]

Q_asg ==
    [question_id |-> "A3_P1_Q1", question_type |-> "single_select",
     options |-> <<Opt("A"), Opt("B")>>, correct_options |-> <<"B">>,
     concept_tags |-> <<"T3">>]

TARGET_LECTURE_ID == "L1_1"

LecturePool ==
    { [lecture_id |-> "L1_1", questions |-> <<Q_plain, Q_notype>>],
      [lecture_id |-> "L1_2", questions |-> <<Q_single, Q_foreign>>],
      [lecture_id |-> "L1_1", questions |-> <<Q_untagged>>],
      [lecture_id |-> "L1_3"] }

AssignmentPool ==
    { [assignment_id |-> "A1", parts |-> <<[questions |-> <<Q_two>>]>>],
      [assignment_id |-> "A2",
       parts |-> <<[part_id |-> "P1"], [questions |-> <<Q_multi, Q_asg>>]>>],
      [assignment_id |-> "A3", parts |-> <<[questions |-> <<Q_asg>>]>>] }

SeqsUpTo(S, n) == UNION {[1..m -> S] : m \in 0..n}

LectureLists == SeqsUpTo(LecturePool, MaxLectures)

AssignmentLists == SeqsUpTo(AssignmentPool, MaxAssignments)

\* banks without an ontology; the lectures or assignments key may be missing
Banks ==
    {[lectures |-> ls, assignments |-> as] :
        ls \in LectureLists, as \in AssignmentLists}
    \cup {[lectures |-> ls] : ls \in LectureLists}
    \cup {[assignments |-> as] : as \in AssignmentLists}

\* (k_min, k_max, p_wrong_if_weak, p_wrong_if_strong) the generator is run
\* with; the probabilities are in units of 1 / RngRes
Configs == {<<1, 3, 2, 1>>, <<0, 0, RngRes, 0>>, <<2, 1, 0, 3>>, <<3, 5, 1, 2>>}

ArgSets ==
    {[num_students |-> n, seed |-> sd, k_min |-> c[1], k_max |-> c[2],
      p_wrong_if_weak |-> c[3], p_wrong_if_strong |-> c[4]] :
        n \in 0..MaxStudents, sd \in Seeds, c \in Configs}

\* a line left in the output file by some earlier, unrelated run
StaleRecord ==
    [student_id |-> StudentId(7), question_id |-> "OLD_Q",
     selected_options |-> <<"A">>, is_correct |-> TRUE,
     concept_tags |-> <<>>]

NoPrev == [status |-> "none", file |-> <<>>, error |-> NoError]

NoFile == [written |-> FALSE]

----------------------------------------------------------------------------
(* generate_attempts *)

\* variant: the file is opened for appending
OpenW_append(old) == old

\* open(out_path, "w"): the file's new contents given its old ones
OpenW(old) == <<>>

\* variant: a question of an unsupported type is recorded with no answer
Body_lenient(i, n, weak, g) ==
    LET q        == questions[i]
        qtags    == Get(q, "concept_tags", <<>>)
        d        == decide_correct(any_weak_tag(qtags, Range(weak)), g,
                                   args.p_wrong_if_weak,
                                   args.p_wrong_if_strong)
        sel      == pick_answer_single_select(q.options, q.correct_options,
                                              d.value, d.rng)
        isSingle == Get(q, "question_type", "single_select") = "single_select"
        drawLog  == <<[op |-> "random", s |-> n, q |-> i, pos |-> g.pos,
                       adv |-> d.rng.pos - g.pos, val |-> d.value]>>
        pickLog  == IF isSingle /\ sel.rng.pos > d.rng.pos
                    THEN <<[op |-> "choice", s |-> n, q |-> i,
                            pos |-> d.rng.pos,
                            adv |-> sel.rng.pos - d.rng.pos, val |-> FALSE]>>
                    ELSE <<>>
    IN  IF isSingle /\ sel.raised
        THEN [raised |-> TRUE, exc |-> sel.exc, rng |-> sel.rng,
              log |-> drawLog]
        ELSE [raised |-> FALSE, rng |-> IF isSingle THEN sel.rng ELSE d.rng,
              log |-> drawLog \o pickLog,
              record |-> [student_id |-> StudentId(n),
                          question_id |-> q.question_id,
                          selected_options |-> IF isSingle THEN sel.value
                                               ELSE <<>>,
                          is_correct |-> d.value,
                          concept_tags |-> qtags]]

\* one iteration of the inner loop: question number i of student n
Body(i, n, weak, g) ==
    LET q        == questions[i]
        qid      == q.question_id
        qtags    == Get(q, "concept_tags", <<>>)
        has_weak == any_weak_tag(qtags, Range(weak))
        d        == decide_correct(has_weak, g, args.p_wrong_if_weak,
                                   args.p_wrong_if_strong)
        qtype    == Get(q, "question_type", "single_select")
        sel      == pick_answer_single_select(q.options, q.correct_options,
                                              d.value, d.rng)
        drawLog  == <<[op |-> "random", s |-> n, q |-> i, pos |-> g.pos,
                       adv |-> d.rng.pos - g.pos, val |-> d.value]>>
        pickLog  == IF sel.rng.pos > d.rng.pos
                    THEN <<[op |-> "choice", s |-> n, q |-> i,
                            pos |-> d.rng.pos,
                            adv |-> sel.rng.pos - d.rng.pos, val |-> FALSE]>>
                    ELSE <<>>
    IN  IF qtype = "single_select"
        THEN IF sel.raised
             THEN [raised |-> TRUE, exc |-> sel.exc, rng |-> sel.rng,
                   log |-> drawLog]
             ELSE [raised |-> FALSE, rng |-> sel.rng,
                   log |-> drawLog \o pickLog,
                   record |-> [student_id |-> StudentId(n),
                               question_id |-> qid,
                               selected_options |-> sel.value,
                               is_correct |-> d.value,
                               concept_tags |-> qtags]]
        ELSE [raised |-> TRUE, rng |-> d.rng, log |-> drawLog,
              exc |-> [type |-> "ValueError",
                       msg |-> "Unsupported question_type",
                       question_type |-> qtype, question_id |-> qid]]

\* lines 123-130: seed the generator, load and flatten the bank, open the file
Start ==
    /\ pc = "init"
    /\ LET qs == iter_all_questions(qb)
       IN  /\ questions' = qs
           /\ all_tags' = TagUniverse(qs)
    /\ rng' = Random(args.seed)
    /\ f_out' = OpenW(f_out)
    /\ s' = 0
    /\ qi' = 0
    /\ weak_tags' = <<>>
    /\ error' = NoError
    /\ rngLog' = <<>>
    /\ pc' = "for_s"
    /\ UNCHANGED <<qb, args, run, prev, extVars, unit>>

\* lines 131-135: the next student, and its weak tags
NextStudent ==
    /\ pc = "for_s"
    /\ s < args.num_students
    /\ LET w == choose_weak_tags(all_tags, rng, args.k_min, args.k_max)
       IN  /\ weak_tags' = w.value
           /\ rng' = w.rng
           /\ rngLog' = Append(rngLog,
                  [op |-> "choose_weak_tags", s |-> s, q |-> 0,
                   pos |-> rng.pos, adv |-> w.rng.pos - rng.pos,
                   val |-> FALSE])
    /\ qi' = 1
    /\ pc' = "for_q"
    /\ UNCHANGED <<qb, args, run, prev, questions, all_tags, s, f_out, error,
                   extVars, unit>>

\* lines 137-168: one question answered and its record written
AttemptQuestion ==
    /\ pc = "for_q"
    /\ qi <= Len(questions)
    /\ LET b == Body(qi, s, weak_tags, rng)
       IN  /\ ~b.raised
           /\ rng' = b.rng
           /\ rngLog' = rngLog \o b.log
           /\ f_out' = Append(f_out, b.record)
    /\ qi' = qi + 1
    /\ UNCHANGED <<qb, args, pc, run, prev, questions, all_tags, s, weak_tags,
                   error, extVars, unit>>

\* lines 137-158: the loop body raises; the with block closes the file
AttemptRaises ==
    /\ pc = "for_q"
    /\ qi <= Len(questions)
    /\ LET b == Body(qi, s, weak_tags, rng)
       IN  /\ b.raised
           /\ rng' = b.rng
           /\ rngLog' = rngLog \o b.log
           /\ error' = b.exc
    /\ pc' = "failed"
    /\ UNCHANGED <<qb, args, run, prev, questions, all_tags, s, weak_tags, qi,
                   f_out, extVars, unit>>

\* line 137: the inner loop is exhausted
EndStudent ==
    /\ pc = "for_q"
    /\ qi > Len(questions)
    /\ s' = s + 1
    /\ pc' = "for_s"
    /\ UNCHANGED <<qb, args, run, prev, rng, questions, all_tags, weak_tags,
                   qi, f_out, error, rngLog, extVars, unit>>

\* line 131: the outer loop is exhausted; the file is closed
Finish ==
    /\ pc = "for_s"
    /\ s >= args.num_students
    /\ pc' = "done"
    /\ UNCHANGED <<qb, args, run, prev, rng, questions, all_tags, s, weak_tags,
                   qi, f_out, error, rngLog, extVars, unit>>

\* the script is started again with the same bank, seed and parameters
Rerun ==
    /\ pc \in {"done", "failed"}
    /\ run < MaxRuns
    /\ prev' = [status |-> pc, file |-> f_out, error |-> error]
    /\ run' = run + 1
    /\ pc' = "init"
    /\ UNCHANGED <<qb, args, rng, questions, all_tags, s, weak_tags, qi,
                   f_out, error, rngLog, extVars, unit>>

IdleExtract ==
    /\ keep_lectures = <<>>
    /\ used_tags = {}
    /\ filtered_ontology = <<>>
    /\ out_file = NoFile

IdleUnit == unit = [fn |-> "none"]

IdleGen ==
    /\ args = [num_students |-> 0, seed |-> 0, k_min |-> 1, k_max |-> 3,
               p_wrong_if_weak |-> 0, p_wrong_if_strong |-> 0]
    /\ run = 0
    /\ prev = NoPrev
    /\ rng = Random(0)
    /\ questions = <<>>
    /\ all_tags = <<>>
    /\ s = 0
    /\ weak_tags = <<>>
    /\ qi = 0
    /\ f_out = <<>>
    /\ rngLog = <<>>

Init ==
    /\ qb \in Banks
    /\ args \in ArgSets
    /\ pc = "init"
    /\ run = 1
    /\ prev = NoPrev
    /\ rng = Random(0)
    /\ questions = <<>>
    /\ all_tags = <<>>
    /\ s = 0
    /\ weak_tags = <<>>
    /\ qi = 0
    /\ f_out = <<StaleRecord>>
    /\ error = NoError
    /\ rngLog = <<>>
    /\ IdleExtract
    /\ IdleUnit

Next ==
    \/ Start
    \/ NextStudent
    \/ AttemptQuestion
    \/ AttemptRaises
    \/ EndStudent
    \/ Finish
    \/ Rerun

Spec == Init /\ [][Next]_vars

----------------------------------------------------------------------------
(* extract_question_bank.py *)

Entry(k, v) == [key |-> k, value |-> v]

\* the ontology member of a bank: missing, empty, partial, or complete
Ontologies ==
    { <<>>,
      <<Entry("T3", "d3"), Entry("T1", "d1")>>,
      <<Entry("T1", "d1"), Entry("T2", "d2"), Entry("T3", "d3"),
        Entry("T9", "d9")>> }

ExtractBanks ==
    Banks \cup {[lectures |-> ls, assignments |-> as, ontology |-> o] :
                   ls \in LectureLists, as \in AssignmentLists,
                   o \in Ontologies}

\* tag in ontology
HasKey(d, k) == \E i \in DOMAIN d : d[i].key = k

\* ontology[tag]
Lookup(d, k) == d[CHOOSE i \in DOMAIN d : d[i].key = k].value

\* [lec for lec in lectures if lec.get("lecture_id") == TARGET_LECTURE_ID]
KeepLectures(lectures) ==
    SelectSeq(lectures,
              LAMBDA lec : /\ "lecture_id" \in DOMAIN lec
                           /\ lec.lecture_id = TARGET_LECTURE_ID)

\* variant: the tags of every lecture of the bank are collected
UsedTags_all(lecs) ==
    UNION {Range(Get(q, "concept_tags", <<>>)) :
              q \in Range(LectureQuestions(Get(qb, "lectures", <<>>)))}

\* the tags of every question of the given lectures
UsedTags(lecs) ==
    UNION {Range(Get(q, "concept_tags", <<>>)) :
              q \in Range(LectureQuestions(lecs))}

\* {tag: ontology[tag] for tag in sorted(used_tags) if tag in ontology}
FilterOntology(ontology, used) ==
    LET present == SelectSeq(sorted(used), LAMBDA t : HasKey(ontology, t))
    IN  [i \in DOMAIN present |-> Entry(present[i], Lookup(ontology, present[i]))]

\* lines 11-13: at least one lecture matches the target
ExtractFilter ==
    /\ pc = "x_filter"
    /\ LET keep == KeepLectures(Get(qb, "lectures", <<>>))
       IN  /\ keep # <<>>
           /\ keep_lectures' = keep
    /\ pc' = "x_tags"
    /\ UNCHANGED <<qb, genVars, error, used_tags, filtered_ontology, out_file,
                   unit>>

\* lines 11-14: no lecture matches the target
ExtractNotFound ==
    /\ pc = "x_filter"
    /\ KeepLectures(Get(qb, "lectures", <<>>)) = <<>>
    /\ error' = [type |-> "ValueError", msg |-> "Lecture_id not found",
                 lecture_id |-> TARGET_LECTURE_ID]
    /\ pc' = "failed"
    /\ UNCHANGED <<qb, genVars, extVars, unit>>

\* lines 17-20
ExtractCollect ==
    /\ pc = "x_tags"
    /\ used_tags' = UsedTags(keep_lectures)
    /\ pc' = "x_ontology"
    /\ UNCHANGED <<qb, genVars, error, keep_lectures, filtered_ontology,
                   out_file, unit>>

\* lines 23-24
ExtractOntology ==
    /\ pc = "x_ontology"
    /\ filtered_ontology' = FilterOntology(Get(qb, "ontology", <<>>), used_tags)
    /\ pc' = "x_write"
    /\ UNCHANGED <<qb, genVars, error, keep_lectures, used_tags, out_file,
                   unit>>

\* lines 27-34
ExtractWrite ==
    /\ pc = "x_write"
    /\ out_file' = [written |-> TRUE,
                    content |-> [ontology |-> filtered_ontology,
                                 lectures |-> keep_lectures,
                                 assignments |-> <<>>]]
    /\ pc' = "done"
    /\ UNCHANGED <<qb, genVars, error, keep_lectures, used_tags,
                   filtered_ontology, unit>>

InitExtract ==
    /\ qb \in ExtractBanks
    /\ pc = "x_filter"
    /\ error = NoError
    /\ IdleGen
    /\ IdleExtract
    /\ IdleUnit

NextExtract ==
    \/ ExtractFilter
    \/ ExtractNotFound
    \/ ExtractCollect
    \/ ExtractOntology
    \/ ExtractWrite

SpecExtract == InitExtract /\ [][NextExtract]_vars

----------------------------------------------------------------------------
(* Single calls of choose_weak_tags and decide_correct *)

\* values of k_min and k_max: below 0, inside and above any universe size
KRange == (0 - 1)..(Len(TagOrder) + 1)

\* wrong-probabilities, in units of 1 / RngRes
PRange == 0..RngRes

\* generator states a call may find
RngStates == {[seed |-> sd, pos |-> p] : sd \in Seeds, p \in 0..3}

\* sorted tag universes
Universes == {sorted(S) : S \in SUBSET Range(TagOrder)}

ChooseCalls ==
    {[fn |-> "choose_weak_tags", done |-> FALSE, all_tags |-> u, rng |-> g,
      k_min |-> a, k_max |-> b, result |-> <<>>, rng_after |-> g] :
        u \in Universes, g \in RngStates, a \in KRange, b \in KRange}

DecideCalls ==
    {[fn |-> "decide_correct", done |-> FALSE, has_weak |-> h, rng |-> g,
      p_wrong_if_weak |-> pw, p_wrong_if_strong |-> ps, result |-> FALSE,
      rng_after |-> g] :
        h \in BOOLEAN, g \in RngStates, pw \in PRange, ps \in PRange}

CallChooseWeakTags ==
    /\ unit.fn = "choose_weak_tags"
    /\ ~unit.done
    /\ LET r == choose_weak_tags(unit.all_tags, unit.rng, unit.k_min,
                                 unit.k_max)
       IN  unit' = [unit EXCEPT !.done = TRUE, !.result = r.value,
                                !.rng_after = r.rng]
    /\ UNCHANGED <<qb, pc, error, genVars, extVars>>

CallDecideCorrect ==
    /\ unit.fn = "decide_correct"
    /\ ~unit.done
    /\ LET r == decide_correct(unit.has_weak, unit.rng, unit.p_wrong_if_weak,
                               unit.p_wrong_if_strong)
       IN  unit' = [unit EXCEPT !.done = TRUE, !.result = r.value,
                                !.rng_after = r.rng]
    /\ UNCHANGED <<qb, pc, error, genVars, extVars>>

InitUnit ==
    /\ unit \in ChooseCalls \cup DecideCalls
    /\ qb = [lectures |-> <<>>]
    /\ pc = "unit"
    /\ error = NoError
    /\ IdleGen
    /\ IdleExtract

NextUnit ==
    \/ CallChooseWeakTags
    \/ CallDecideCorrect

SpecUnit == InitUnit /\ [][NextUnit]_vars

----------------------------------------------------------------------------
(* Properties of generate_attempts *)

M == Len(questions)

Ended == pc \in {"done", "failed"}

\* the file holds this run's records (not what an earlier run left)
Opened == pc \in {"for_s", "for_q", "done", "failed"}

\* the inner loop of some student has got to question number i
Reached(i) == Opened /\ (s > 0 \/ (pc \in {"for_q", "failed"} /\ qi >= i))

\* the question the k-th record (1-based) of the file is about
QuestionOf(k) == questions[((k - 1) % M) + 1]

IsSingleSelect(q) == Get(q, "question_type", "single_select") = "single_select"

RECURSIVE FlatLectures(_, _)
\* the questions of the first n lectures, lecture by lecture
FlatLectures(ls, n) ==
    IF n = 0 THEN <<>>
    ELSE FlatLectures(ls, n - 1) \o Get(ls[n], "questions", <<>>)

RECURSIVE FlatParts(_, _)
FlatParts(ps, n) ==
    IF n = 0 THEN <<>>
    ELSE FlatParts(ps, n - 1) \o Get(ps[n], "questions", <<>>)

RECURSIVE FlatAssignments(_, _)
FlatAssignments(as, n) ==
    IF n = 0 THEN <<>>
    ELSE LET ps == Get(as[n], "parts", <<>>)
         IN  FlatAssignments(as, n - 1) \o FlatParts(ps, Len(ps))

\* q_1..q_M: every lecture's questions, then every assignment's parts'
Flattened ==
    LET ls == Get(qb, "lectures", <<>>)
        as == Get(qb, "assignments", <<>>)
    IN  FlatLectures(ls, Len(ls)) \o FlatAssignments(as, Len(as))

\* C1: a successful run with N students over the flattened questions
\* q_1..q_M leaves exactly N*M records, the i-th (0-based) being student
\* i div M answering question q_(i mod M + 1).
C1_Complete ==
    pc = "done" =>
        /\ Len(f_out) = args.num_students * Len(Flattened)
        /\ \A i \in 0..(Len(f_out) - 1) :
              /\ f_out[i + 1].student_id = StudentId(i \div Len(Flattened))
              /\ f_out[i + 1].question_id
                     = Flattened[(i % Len(Flattened)) + 1].question_id

C1_Witness ==
    /\ pc = "done"
    /\ args.num_students = 2
    /\ Len(f_out) >= 6
    /\ LectureQuestions(Get(qb, "lectures", <<>>)) # <<>>
    /\ AssignmentQuestions(Get(qb, "assignments", <<>>)) # <<>>

\* C2: every record written for a single_select question has
\* selected_options equal to correct_options when is_correct, and otherwise
\* exactly one key that is an option key and is not the correct key.
C2_SelectedMatchesDecision ==
    Opened =>
        \A k \in DOMAIN f_out :
            LET rec == f_out[k]
                q   == QuestionOf(k)
            IN  IsSingleSelect(q) =>
                    IF rec.is_correct
                    THEN rec.selected_options = q.correct_options
                    ELSE /\ Len(rec.selected_options) = 1
                         /\ rec.selected_options[1] \in Range(keys(q.options))
                         /\ rec.selected_options[1] # q.correct_options[1]

\* both decisions recorded for a question whose correct key is no option key
C2_Witness ==
    /\ Opened
    /\ \E k \in DOMAIN f_out :
          /\ ~f_out[k].is_correct
          /\ QuestionOf(k).correct_options[1]
                 \notin Range(keys(QuestionOf(k).options))
    /\ \E k \in DOMAIN f_out :
          /\ f_out[k].is_correct
          /\ QuestionOf(k).correct_options[1]
                 \notin Range(keys(QuestionOf(k).options))

BadCardinality(q) == IsSingleSelect(q) /\ Len(q.correct_options) # 1

\* C5: a run that gets to a single_select question whose correct_options
\* has not exactly one element fails there, writes no record for it or for
\* any later pair, and raises an error that identifies the question.
C5_FailsIdentifyingQuestion ==
    \A i \in DOMAIN questions :
        (Ended /\ Reached(i) /\ BadCardinality(questions[i])) =>
            /\ pc = "failed"
            /\ s = 0
            /\ qi = i
            /\ Len(f_out) = i - 1
            /\ "question_id" \in DOMAIN error
            /\ error.question_id = questions[i].question_id

\* C6: when the loop gets to a question of a type other than single_select
\* the run fails there with an error naming the question id and the type;
\* no record is written for that question or for any later pair.
C6_UnsupportedTypeFails ==
    \A i \in DOMAIN questions :
        (Ended /\ Reached(i) /\ ~IsSingleSelect(questions[i])) =>
            /\ pc = "failed"
            /\ s = 0
            /\ qi = i
            /\ Len(f_out) = i - 1
            /\ error.type = "ValueError"
            /\ "question_id" \in DOMAIN error
            /\ error.question_id = questions[i].question_id
            /\ error.question_type = questions[i].question_type

C6_Witness ==
    /\ pc = "failed"
    /\ qi \in DOMAIN questions
    /\ ~IsSingleSelect(questions[qi])
    /\ Len(f_out) >= 1

\* C7: a second run with the same seed, bank and parameters ends as the
\* first did (same records, or the same failure with the same partial
\* output), whatever the output file held when the run opened it.
C7_Deterministic ==
    (run >= 2 /\ Ended) =>
        prev = [status |-> pc, file |-> f_out, error |-> error]

C7_Witness ==
    /\ run = 2
    /\ pc = "failed"
    /\ Len(f_out) >= 3
    /\ \E k \in DOMAIN f_out : ~f_out[k].is_correct

OnlyCorrectOption(q) ==
    /\ IsSingleSelect(q)
    /\ Len(q.correct_options) = 1
    /\ Range(keys(q.options)) \subseteq {q.correct_options[1]}

\* C10: for a single_select question with one correct option and no other
\* option key, an attempt decided correct is recorded with the correct key
\* and the run goes on; an attempt decided incorrect aborts the run at that
\* question, with the earlier records kept and none written for it or later.
C10_SingleOptionDependsOnDraw ==
    Opened =>
        \A e \in DOMAIN rngLog :
            LET d == rngLog[e]
            IN  (d.op = "random" /\ OnlyCorrectOption(questions[d.q])) =>
                    IF d.val
                    THEN /\ Len(f_out) >= d.s * M + d.q
                         /\ f_out[d.s * M + d.q].is_correct
                         /\ f_out[d.s * M + d.q].selected_options
                                = questions[d.q].correct_options
                         /\ f_out[d.s * M + d.q].question_id
                                = questions[d.q].question_id
                         /\ ~(pc = "failed" /\ s = d.s /\ qi = d.q)
                    ELSE /\ pc = "failed"
                         /\ error.type = "IndexError"
                         /\ s = d.s
                         /\ qi = d.q
                         /\ Len(f_out) = d.s * M + d.q - 1

\* the first student passes the question, the second one aborts the run
C10_Witness ==
    /\ pc = "failed"
    /\ error.type = "IndexError"
    /\ s >= 1
    /\ Len(f_out) >= M

\* positions in rngLog of the calls of choose_weak_tags
WeakIdx == {i \in DOMAIN rngLog : rngLog[i].op = "choose_weak_tags"}

\* how many log entries with operation o lie in positions lo..hi
CountOps(o, lo, hi) == Cardinality({j \in lo..hi : rngLog[j].op = o})

\* position of the last call of choose_weak_tags before position i
LastWeak(i) ==
    CHOOSE j \in WeakIdx : j < i /\ \A m \in WeakIdx : m < i => m <= j

\* the generator is used in one global order: per student one call of
\* choose_weak_tags, then per question in flattened order a correctness
\* draw followed, iff the decision is incorrect, by the wrong-answer draw;
\* nothing else draws in between
RngOrder ==
    Opened =>
        /\ \A i \in DOMAIN rngLog :
              LET e == rngLog[i]
              IN  /\ e.pos = IF i = 1 THEN 0
                             ELSE rngLog[i - 1].pos + rngLog[i - 1].adv
                  /\ e.op = "choose_weak_tags" =>
                        /\ e.s = CountOps("choose_weak_tags", 1, i - 1)
                        /\ i > 1 => CountOps("random", LastWeak(i), i) = M
                  /\ e.op = "random" =>
                        /\ i > 1
                        /\ e.s = CountOps("choose_weak_tags", 1, i) - 1
                        /\ e.q = CountOps("random", LastWeak(i), i)
                        /\ e.adv = 1
                        /\ (~e.val /\ i < Len(rngLog)) =>
                               rngLog[i + 1].op = "choice"
                  /\ e.op = "choice" =>
                        /\ i > 1
                        /\ rngLog[i - 1].op = "random"
                        /\ ~rngLog[i - 1].val
                        /\ rngLog[i - 1].s = e.s
                        /\ rngLog[i - 1].q = e.q
                        /\ e.adv = 1
        /\ rngLog # <<>> =>
              rng.pos = rngLog[Len(rngLog)].pos + rngLog[Len(rngLog)].adv
        /\ pc = "done" => Cardinality(WeakIdx) = args.num_students
        /\ pc \in {"for_q", "failed"} => Cardinality(WeakIdx) = s + 1

\* C9 as stated: the generator is used in the fixed global order, and every
\* call of choose_weak_tags advances the generator's state.
C9_EveryCallAdvances ==
    /\ RngOrder
    /\ Opened => \A i \in WeakIdx : rngLog[i].adv > 0

\* C9 amended: the generator is used in the fixed global order, and a call
\* of choose_weak_tags advances the generator's state exactly when the tag
\* universe is not empty.
C9_AdvancesUnlessNoTags ==
    /\ RngOrder
    /\ Opened => \A i \in WeakIdx : (rngLog[i].adv > 0) <=> (all_tags # <<>>)

\* two students over an untagged bank, with a wrong-answer draw
C9_Witness ==
    /\ pc = "done"
    /\ args.num_students = 2
    /\ all_tags = <<>>
    /\ \E i \in DOMAIN rngLog : rngLog[i].op = "choice"
    /\ \A i \in WeakIdx : rngLog[i].adv = 0

----------------------------------------------------------------------------
(* Properties of single calls *)

\* the wrong-probability decide_correct selects
PWrong == IF unit.has_weak THEN unit.p_wrong_if_weak ELSE unit.p_wrong_if_strong

\* C3 as stated: a draw exactly equal to the selected wrong-probability
\* counts as correct.
C3_EqualDrawIsCorrect ==
    (unit.fn = "decide_correct" /\ unit.done /\ Raw(unit.rng) = PWrong) =>
        unit.result = TRUE

\* C3 amended: a draw exactly equal to the selected wrong-probability counts
\* as incorrect; only a strictly greater draw is correct.
C3_EqualDrawIsIncorrect ==
    (unit.fn = "decide_correct" /\ unit.done) =>
        /\ Raw(unit.rng) = PWrong => unit.result = FALSE
        /\ unit.result = (Raw(unit.rng) > PWrong)

C3_Witness ==
    /\ unit.fn = "decide_correct"
    /\ unit.done
    /\ unit.has_weak
    /\ Raw(unit.rng) = PWrong
    /\ PWrong > 0
    /\ unit.p_wrong_if_strong # unit.p_wrong_if_weak

Clamp(k, n) == IF k < 0 THEN 0 ELSE IF k > n THEN n ELSE k

\* C4: with lo and hi the bounds clamped into [0, |U|] and lo lowered to hi
\* when above it, choose_weak_tags returns k tags with lo <= k <= hi, all
\* from U and pairwise different; for an empty U it returns nothing.
C4_WeakTagsWithinBounds ==
    (unit.fn = "choose_weak_tags" /\ unit.done) =>
        LET n   == Len(unit.all_tags)
            hi  == Clamp(unit.k_max, n)
            lo  == IF Clamp(unit.k_min, n) > hi THEN hi
                   ELSE Clamp(unit.k_min, n)
            res == unit.result
        IN  IF n = 0 THEN res = <<>>
            ELSE /\ lo <= Len(res)
                 /\ Len(res) <= hi
                 /\ Range(res) \subseteq Range(unit.all_tags)
                 /\ \A i, j \in DOMAIN res : i # j => res[i] # res[j]

\* k_min above the universe and above k_max; k_max tags returned, out of order
C4_Witness ==
    /\ unit.fn = "choose_weak_tags"
    /\ unit.done
    /\ unit.k_min > Len(unit.all_tags)
    /\ unit.k_max = 2
    /\ Len(unit.result) = 2
    /\ unit.result # sorted(Range(unit.result))

----------------------------------------------------------------------------
(* Properties of the extraction script *)

SourceLectures == Get(qb, "lectures", <<>>)

SourceOntology == Get(qb, "ontology", <<>>)

\* positions of the source lectures whose lecture_id is the target
Matching ==
    {i \in DOMAIN SourceLectures :
        /\ "lecture_id" \in DOMAIN SourceLectures[i]
        /\ SourceLectures[i].lecture_id = TARGET_LECTURE_ID}

\* the j-th smallest matching position
NthMatching(j) ==
    CHOOSE i \in Matching : Cardinality({m \in Matching : m <= i}) = j

\* tags some question of a matching lecture refers to
KeptTags ==
    {t \in Range(TagOrder) :
        \E i \in Matching :
            \E q \in Range(Get(SourceLectures[i], "questions", <<>>)) :
                t \in Range(Get(q, "concept_tags", <<>>))}

\* C8: with a matching lecture the script writes the matching lectures in
\* source order, no assignments, and exactly the source ontology entries
\* whose tag a question of a kept lecture refers to; with no matching
\* lecture it fails and writes nothing.
C8_ExtractKeepsTargetOnly ==
    /\ (pc = "done" /\ out_file.written) =>
          LET new == out_file.content
          IN  /\ Matching # {}
              /\ Len(new.lectures) = Cardinality(Matching)
              /\ \A j \in DOMAIN new.lectures :
                    new.lectures[j] = SourceLectures[NthMatching(j)]
              /\ new.assignments = <<>>
              /\ Range(new.ontology)
                     = {e \in Range(SourceOntology) : e.key \in KeptTags}
    /\ (pc \in {"done", "failed"} /\ Matching # {}) =>
          (pc = "done" /\ out_file.written)
    /\ (pc \in {"done", "failed"} /\ Matching = {}) =>
          (pc = "failed" /\ error.type = "ValueError" /\ out_file = NoFile)

\* a lecture dropped, and ontology entries both kept and dropped
C8_Witness ==
    /\ pc = "done"
    /\ out_file.written
    /\ Len(out_file.content.lectures) < Len(SourceLectures)
    /\ out_file.content.ontology # <<>>
    /\ \E e \in Range(SourceOntology) :
          /\ e \notin Range(out_file.content.ontology)
          /\ e.key \in Range(TagUniverse(iter_all_questions(qb)))

====
